---- MODULE Spec2Model ----
(***************************************************************************)
(* Persistence-and-ranking engine of the ZONORG farming game: accounts,    *)
(* bearer tokens and sessions, game snapshots, achievements, leaderboards. *)
(*                                                                         *)
(* The repository holds two generations of route handlers over one store:  *)
(*   Db*  the handlers mounted by the server (database/routes/*.js), which *)
(*        use the Database class (req.db) and stateless JWT bearer tokens; *)
(*   Rt*  the handlers under routes/*.js, which use hashed session records *)
(*        through store calls of a database module (validateSession,       *)
(*        createSession, revokeSession, updateUserStats, updateLeaderboard,*)
(*        addAchievement, getUserBy...) that is not among the sources and  *)
(*        is modelled from the written design.                             *)
(* One generation is deployed at a time (gen).                             *)
(* Time is a discrete clock; two operations at the same clock value fall   *)
(* within one second (the resolution of CURRENT_TIMESTAMP and of a JWT's   *)
(* iat).                                                                   *)
(***************************************************************************)
EXTENDS Integers, Sequences, FiniteSets, TLC

\* ------------------------------------------------------------ bounds
MaxTime == 2
MaxTokens == 2
MaxSaves == 2
MaxSlots == 2
MaxAchievements == 3
MaxRows == 3
MaxEntries == 4

\* Session and JWT lifetime (7 days), in clock ticks.
TTL == 2

Usernames == {"ann", "bob"}
RawEmails == {"a@x.io", "A@x.io", "b@x.io"}
Passwords == {"pw1", "pw2"}
RegPasswords == {"pw1"}
Slots == 1..MaxSlots
UserIds == 1..Cardinality(Usernames)

NULL == "null"

VARIABLES
    now,            \* the clock
    users,          \* table users
    user_sessions,  \* table user_sessions (token_hash, expires_at)
    game_saves,     \* table game_saves
    leaderboard,    \* table leaderboard
    achievements,   \* table achievements
    schema,         \* which branch of initSchema created the tables
    gen,            \* the generation of handlers deployed: "db" or "rt"
    issued,         \* history: tokens handed to callers, with the user they were issued for
    loggedOut,      \* history: tokens presented to a logout that answered success
    lastSave,       \* history: per user id, the payload of the last save that stored a row
    reqs,           \* requests in flight in the multi-step (awaiting) handlers
    resp,           \* the response sent by the last step (NoResponse if it sent none)
    program,        \* the program the process runs: "server" or "init-db"
    main,           \* where the program's main flow stands
    exit,           \* "running", or how the process ended: "exit0", "exit1", "crash"
    conn,           \* the sqlite connection: "opening", "open", "failed", "closed"
    schemaPromise,  \* the promise of initSchema: "idle", "running", "resolved", "rejected"
    created,        \* per schema statement: "queued", "ok" or "failed"
    completed,      \* let completed of createTablesDirectly
    hasError        \* let hasError of createTablesDirectly

\* The state of the process and of its schema setup.
startupVars == <<program, main, exit, conn, schemaPromise, created, completed, hasError>>

vars == <<now, users, user_sessions, game_saves, leaderboard, achievements,
          schema, gen, issued, loggedOut, lastSave, reqs, resp, startupVars>>

\* The tables of the game handlers, with their history.
gameTables == <<game_saves, leaderboard, achievements, lastSave>>

\* ------------------------------------------------------------ helpers

\* express-validator normalizeEmail(): lower-cases the address.
normalizeEmail(e) == CASE e = "A@x.io" -> "a@x.io" [] OTHER -> e

\* isEmail() of express-validator, on the strings of the model: those with a local
\* part, an '@' and a domain.
isEmail(str) == str \in {"a@x.io", "A@x.io", "b@x.io"}

\* matches(/^[a-zA-Z0-9_]+$/) of validateRegistration, on the strings of the model: the
\* strings with an '@' or a '.' do not match.
matchesUsernamePattern(str) == str \notin {"a@x.io", "A@x.io", "b@x.io"}

\* bcrypt.hashSync / bcrypt.hash, and (below) bcrypt.compareSync / bcrypt.compare.
bcryptHash(p) == <<"bcrypt", p>>

\* A comparison that accepts every password.
bcryptCompareAny(p, h) == TRUE

bcryptCompare(p, h) == h = bcryptHash(p)

\* A signer that puts the first registered user into every payload.
jwtSignFirstUser(userId, username, t) ==
    [userId |-> 1, username |-> "ann", iat |-> t, exp |-> t + TTL, sig |-> "HS256"]

\* jwt.sign({userId, username}, secret, {expiresIn: '7d'}) at clock value t:
\* a deterministic function of the payload and of iat.
jwtSign(userId, username, t) ==
    [userId |-> userId, username |-> username, iat |-> t, exp |-> t + TTL, sig |-> "HS256"]

\* A token not signed with the server's secret.
ForgedToken == [userId |-> 1, username |-> "ann", iat |-> 0, exp |-> TTL, sig |-> "forged"]

\* jwt.verify: signature and exp.
jwtVerify(token) == token.sig = "HS256" /\ now < token.exp

\* A fingerprint that is the token itself.
sha256Raw(token) == token

\* crypto.createHash('sha256').update(token).digest('hex')
sha256(token) == [digest |-> "sha256", of |-> token]

NoUser == [id |-> 0, username |-> NULL]
NoToken == [userId |-> 0, username |-> NULL, iat |-> 0, exp |-> 0, sig |-> NULL]

Response(op, stack, status, error, token, user, arg) ==
    [op |-> op, stack |-> stack, status |-> status, error |-> error,
     token |-> token, user |-> user, arg |-> arg, req |-> NULL]

NoResponse == [op |-> NULL, stack |-> NULL, status |-> 0, error |-> NULL,
               token |-> NoToken, user |-> NoUser, arg |-> NULL, req |-> NULL]

\* A leaderboard request: the category and the limit of the query string (<<>> when the
\* query has none, <<n>> for limit=n), and the limit the handler handed to getLeaderboard
\* (<<>> when it made no call).
Query(category, q, limit) == [category |-> category, q |-> q, limit |-> limit]

\* A response, with the request it answers.
Asked(r, query) == [r EXCEPT !.req = query]

Grant(token, stack, user) == [token |-> token, stack |-> stack, user |-> user]

\* The histories are bounded: a handler whose answer would grow one past its bound
\* is not started, and a login is not answered with a token past the bound.
CanIssue == Cardinality(issued) < MaxTokens

IssuedTokens == {g.token : g \in issued}
PresentedTokens == IssuedTokens \cup {ForgedToken}

\* ------------------------------------------------------------ users

\* A users row with the column defaults of schema.sql.
UserRow(id, username, email, hash) ==
    [id |-> id, username |-> username, email |-> email, password_hash |-> hash,
     is_active |-> TRUE, last_login |-> -1,
     farm_level |-> 1, total_coins |-> 100, sustainability_rating |-> "Beginner"]

\* UNIQUE(username), UNIQUE(email) of the users table: would this INSERT fail?
UsersUniqueViolation(username, email) ==
    \E r \in users : r.username = username \/ r.email = email

\* AUTOINCREMENT: users rows are never deleted.
NextUserId == Cardinality(users) + 1

Identity(r) == [id |-> r.id, username |-> r.username]

\* ------------------------------------------------------------ Db* auth

\* POST /register of database/routes/auth.js, with Database.createUser. Its validators
\* take any username of 3 to 50 characters (every username of the model) and an email
\* that isEmail.
DbRegister(username, rawEmail, password) ==
    LET email == normalizeEmail(rawEmail) IN
    /\ gen = "db"
    /\ CanIssue
    /\ IF ~isEmail(rawEmail)
       THEN /\ resp' = Response("register", "db", 400, "Validation failed",
                                NoToken, NoUser, <<username, email>>)
            /\ UNCHANGED <<users, issued>>
       ELSE IF UsersUniqueViolation(username, email)
       THEN /\ resp' = Response("register", "db", 400, "Username or email already exists",
                                NoToken, NoUser, <<username, email>>)
            /\ UNCHANGED <<users, issued>>
       ELSE LET row == UserRow(NextUserId, username, email, bcryptHash(password))
                token == jwtSign(row.id, row.username, now)
            IN /\ users' = users \cup {row}
               /\ issued' = issued \cup {Grant(token, "db", Identity(row))}
               /\ resp' = Response("register", "db", 201, NULL, token, Identity(row),
                                   <<username, email>>)
    /\ UNCHANGED <<now, user_sessions, gameTables, schema, gen, startupVars,
                   loggedOut, reqs>>

\* POST /register of database/routes/auth.js in a process without JWT_SECRET: the
\* validators and Database.createUser as above, then jwt.sign(payload, undefined)
\* throws and the catch answers 400 with the message of the error.
DbRegisterSignThrows(username, rawEmail, password) ==
    LET email == normalizeEmail(rawEmail) IN
    /\ gen = "db"
    /\ isEmail(rawEmail)
    /\ ~UsersUniqueViolation(username, email)
    /\ users' = users \cup {UserRow(NextUserId, username, email, bcryptHash(password))}
    /\ resp' = Response("register", "db", 400, "secretOrPrivateKey must have a value",
                        NoToken, NoUser, <<username, email>>)
    /\ UNCHANGED <<now, user_sessions, gameTables, schema, gen, startupVars,
                   issued, loggedOut, reqs>>

\* Database.authenticateUser: the rows the SELECT matches.
authenticateUserMatches(usernameOrEmail) ==
    {r \in users : (r.username = usernameOrEmail \/ r.email = usernameOrEmail) /\ r.is_active}

\* POST /login of database/routes/auth.js, with Database.authenticateUser.
DbLogin(usernameOrEmail, password) ==
    /\ gen = "db"
    /\ IF authenticateUserMatches(usernameOrEmail) = {}
       THEN /\ resp' = Response("login", "db", 401, "User not found", NoToken, NoUser,
                                <<usernameOrEmail, password>>)
            /\ UNCHANGED <<users, issued>>
       ELSE \E user \in authenticateUserMatches(usernameOrEmail) :
              IF ~bcryptCompare(password, user.password_hash)
              THEN /\ resp' = Response("login", "db", 401, "Invalid password", NoToken, NoUser,
                                       <<usernameOrEmail, password>>)
                   /\ UNCHANGED <<users, issued>>
              ELSE LET token == jwtSign(user.id, user.username, now) IN
                   /\ CanIssue
                   /\ users' = (users \ {user}) \cup {[user EXCEPT !.last_login = now]}
                   /\ issued' = issued \cup {Grant(token, "db", Identity(user))}
                   /\ resp' = Response("login", "db", 200, NULL, token, Identity(user),
                                       <<usernameOrEmail, password>>)
    /\ UNCHANGED <<now, user_sessions, gameTables, schema, gen, startupVars,
                   loggedOut, reqs>>

\* GET /verify of database/routes/auth.js and the authenticateToken middleware
\* of database/routes/*.js: jwt.verify alone decides.
DbVerify(token) ==
    /\ gen = "db"
    /\ resp' = IF jwtVerify(token)
               THEN Response("validate", "db", 200, NULL, token,
                             [id |-> token.userId, username |-> token.username], NULL)
               ELSE Response("validate", "db", 401, "Invalid token", token, NoUser, NULL)
    /\ UNCHANGED <<now, users, user_sessions, gameTables, schema, gen, startupVars,
                   issued, loggedOut, reqs>>

\* POST /logout of database/routes/auth.js: answers success, changes nothing.
DbLogout(token) ==
    /\ gen = "db"
    /\ resp' = Response("logout", "db", 200, NULL, token, NoUser, NULL)
    /\ loggedOut' = loggedOut \cup {token}
    /\ UNCHANGED <<now, users, user_sessions, gameTables, schema, gen, startupVars,
                   issued, reqs>>

\* ------------------------------------------------------------ store calls of routes/*.js

\* getUserByEmail / getUserByUsername: the row, if any.
getUserByEmail(email) == {r \in users : r.email = email}
getUserByUsername(username) == {r \in users : r.username = username}

\* createSession(userId, tokenHash, expiresAt, ip, agent): one user_sessions row.
SessionRow(userId, tokenHash, expiresAt) ==
    [user_id |-> userId, token_hash |-> tokenHash, expires_at |-> expiresAt]

\* validateSession(tokenHash): the unexpired sessions with that fingerprint.
validateSession(tokenHash) ==
    {s \in user_sessions : s.token_hash = tokenHash /\ now < s.expires_at}

\* revokeSession(tokenHash): the table without the sessions of that fingerprint.
revokeSession(tokenHash) == {s \in user_sessions : s.token_hash # tokenHash}

\* ------------------------------------------------------------ Rt* auth

Req(op, pc, username, email, password, user, token, body) ==
    [op |-> op, pc |-> pc, username |-> username, email |-> email, password |-> password,
     user |-> user, token |-> token, body |-> body]

NoReq == Req("idle", "idle", NULL, NULL, NULL, NoUser, NoToken, NULL)

Finish(s) == reqs' = [reqs EXCEPT ![s] = NoReq]
Goto(s, pc) == reqs' = [reqs EXCEPT ![s].pc = pc]

\* validateRegistration of routes/auth.js: the username matches the pattern and the
\* email isEmail (every username of the model has 3 to 50 characters, every password
\* at least 6).
validateRegistration(username, rawEmail) ==
    matchesUsernamePattern(username) /\ isEmail(rawEmail)

\* POST /register of routes/auth.js, up to the answer of getUserByEmail.
RtRegisterGetUserByEmail(s, username, rawEmail, password) ==
    LET email == normalizeEmail(rawEmail) IN
    /\ gen = "rt"
    /\ reqs[s] = NoReq
    /\ CanIssue
    /\ IF ~validateRegistration(username, rawEmail)
       THEN /\ resp' = Response("register", "rt", 400, "Validation failed", NoToken,
                                NoUser, <<username, email>>)
            /\ UNCHANGED reqs
       ELSE IF getUserByEmail(email) # {}
       THEN /\ resp' = Response("register", "rt", 409, "Email already registered", NoToken,
                                NoUser, <<username, email>>)
            /\ UNCHANGED reqs
       ELSE /\ reqs' = [reqs EXCEPT ![s] = Req("register", "getUserByUsername", username,
                                               email, password, NoUser, NoToken, NULL)]
            /\ resp' = NoResponse
    /\ UNCHANGED <<now, users, user_sessions, gameTables, schema, gen, startupVars,
                   issued, loggedOut>>

\* ... the answer of getUserByUsername.
RtRegisterGetUserByUsername(s) ==
    LET r == reqs[s] IN
    /\ r.op = "register" /\ r.pc = "getUserByUsername"
    /\ IF getUserByUsername(r.username) # {}
       THEN /\ resp' = Response("register", "rt", 409, "Username already taken", NoToken,
                                NoUser, <<r.username, r.email>>)
            /\ Finish(s)
       ELSE /\ Goto(s, "createUser")
            /\ resp' = NoResponse
    /\ UNCHANGED <<now, users, user_sessions, gameTables, schema, gen, startupVars,
                   issued, loggedOut>>

\* ... bcrypt.hash, createUser (which throws on the UNIQUE constraints of users: the
\* catch answers 500) and jwt.sign.
RtRegisterCreateUser(s) ==
    LET r == reqs[s] IN
    /\ r.op = "register" /\ r.pc = "createUser"
    /\ IF UsersUniqueViolation(r.username, r.email)
       THEN /\ resp' = Response("register", "rt", 500, "Registration failed", NoToken,
                                NoUser, <<r.username, r.email>>)
            /\ Finish(s)
            /\ UNCHANGED users
       ELSE LET row == UserRow(NextUserId, r.username, r.email, bcryptHash(r.password)) IN
            /\ users' = users \cup {row}
            /\ reqs' = [reqs EXCEPT ![s].pc = "createSession",
                                    ![s].user = Identity(row),
                                    ![s].token = jwtSign(row.id, row.username, now)]
            /\ resp' = NoResponse
    /\ UNCHANGED <<now, user_sessions, gameTables, schema, gen, startupVars,
                   issued, loggedOut>>

\* ... createSession and the 201 answer carrying the token.
RtRegisterCreateSession(s) ==
    LET r == reqs[s] IN
    /\ r.op = "register" /\ r.pc = "createSession"
    /\ user_sessions' = user_sessions \cup
                          {SessionRow(r.user.id, sha256(r.token), r.token.exp)}
    /\ issued' = issued \cup {Grant(r.token, "rt", r.user)}
    /\ resp' = Response("register", "rt", 201, NULL, r.token, r.user, <<r.username, r.email>>)
    /\ Finish(s)
    /\ UNCHANGED <<now, users, gameTables, schema, gen, startupVars, loggedOut>>

\* ... createSession rejects (a failure of the storage): the catch of the handler
\* answers 500.
RtRegisterCreateSessionFails(s) ==
    LET r == reqs[s] IN
    /\ r.op = "register" /\ r.pc = "createSession"
    /\ resp' = Response("register", "rt", 500, "Registration failed", NoToken, NoUser,
                        <<r.username, r.email>>)
    /\ Finish(s)
    /\ UNCHANGED <<now, users, user_sessions, gameTables, schema, gen, startupVars,
                   issued, loggedOut>>

\* POST /login of routes/auth.js: getUserByUsername, else getUserByEmail; bcrypt.compare;
\* updateUserLogin; jwt.sign; createSession.  Its awaited store calls touch only the
\* one user's last_login and add one session row, so the handler is one step.
RtLogin(username, password) ==
    LET found == IF getUserByUsername(username) # {} THEN getUserByUsername(username)
                 ELSE getUserByEmail(username) IN
    /\ gen = "rt"
    /\ IF found = {}
       THEN /\ resp' = Response("login", "rt", 401, "Invalid credentials", NoToken, NoUser,
                                <<username, password>>)
            /\ UNCHANGED <<users, user_sessions, issued>>
       ELSE \E user \in found :
              IF ~bcryptCompare(password, user.password_hash)
              THEN /\ resp' = Response("login", "rt", 401, "Invalid credentials", NoToken, NoUser,
                                <<username, password>>)
                   /\ UNCHANGED <<users, user_sessions, issued>>
              ELSE LET token == jwtSign(user.id, user.username, now) IN
                   /\ CanIssue
                   /\ users' = (users \ {user}) \cup {[user EXCEPT !.last_login = now]}
                   /\ user_sessions' = user_sessions \cup
                                         {SessionRow(user.id, sha256(token), now + TTL)}
                   /\ issued' = issued \cup {Grant(token, "rt", Identity(user))}
                   /\ resp' = Response("login", "rt", 200, NULL, token, Identity(user),
                                       <<username, password>>)
    /\ UNCHANGED <<now, gameTables, schema, gen, startupVars, loggedOut, reqs>>

\* The authenticateToken middleware of routes/*.js: req.user of the session, if any.
authenticateToken(token) ==
    {[id |-> s.user_id, username |-> u.username] :
        <<s, u>> \in {<<s, u>> \in validateSession(sha256(token)) \X users : u.id = s.user_id}}

\* GET /verify of routes/auth.js.
RtVerify(token) ==
    /\ gen = "rt"
    /\ IF authenticateToken(token) = {}
       THEN resp' = Response("validate", "rt", 403, "Invalid or expired token", token, NoUser, NULL)
       ELSE \E user \in authenticateToken(token) :
              resp' = Response("validate", "rt", 200, NULL, token, user, NULL)
    /\ UNCHANGED <<now, users, user_sessions, gameTables, schema, gen, startupVars,
                   issued, loggedOut, reqs>>

\* POST /logout of routes/auth.js: behind authenticateToken, then revokeSession.
RtLogout(token) ==
    /\ gen = "rt"
    /\ IF authenticateToken(token) = {}
       THEN /\ resp' = Response("logout", "rt", 403, "Invalid or expired token", token, NoUser, NULL)
            /\ UNCHANGED <<user_sessions, loggedOut>>
       ELSE /\ user_sessions' = revokeSession(sha256(token))
            /\ loggedOut' = loggedOut \cup {token}
            /\ resp' = Response("logout", "rt", 200, NULL, token, NoUser, NULL)
    /\ UNCHANGED <<now, users, gameTables, schema, gen, startupVars,
                   issued, reqs>>

\* ------------------------------------------------------------ JavaScript values and JSON

\* A JavaScript value, tagged with its type.  An object is its set of own properties
\* <<key, value>>.
Num(n) == [t |-> "number", n |-> n]
Str(str) == [t |-> "string", s |-> str]
Arr(elems) == [t |-> "array", a |-> elems]
Obj(props) == [t |-> "object", o |-> props]
Bool(b) == [t |-> "boolean", b |-> b]
Undefined == [t |-> "undefined"]

\* value[key]: undefined for a missing property and for a property of a non-object.
Get(value, key) ==
    IF value.t = "object" /\ \E p \in value.o : p[1] = key
    THEN (CHOOSE p \in value.o : p[1] = key)[2]
    ELSE Undefined

\* ToBoolean.
Truthy(value) ==
    CASE value.t = "undefined" -> FALSE
      [] value.t = "boolean" -> value.b
      [] value.t = "number" -> value.n # 0
      [] value.t = "string" -> value.s # ""
      [] OTHER -> TRUE

\* a || b
Or(a, b) == IF Truthy(a) THEN a ELSE b

\* The numbers and property names a JSON text of the model may hold.
Numbers == 0..9
KeyOrder == <<"gameState", "plots", "camera", "level", "coins", "sustainabilityRating",
              "x", "y", "scrollEnabled", "crop">>

\* A JSON text is a sequence of tokens.
Tok(kind, text) == [k |-> kind, s |-> text]

RECURSIVE Flatten(_)
Flatten(seqs) == IF seqs = <<>> THEN <<>> ELSE Head(seqs) \o Flatten(Tail(seqs))

\* JSON.stringify: numbers are written as digits, properties whose value is undefined
\* are left out.
RECURSIVE JSONstringify(_)
JSONstringify(value) ==
    CASE value.t = "number" -> <<Tok("number", ToString(value.n))>>
      [] value.t = "string" -> <<Tok("string", value.s)>>
      [] value.t = "boolean" -> <<Tok("literal", IF value.b THEN "true" ELSE "false")>>
      [] value.t = "array" ->
            <<Tok("punct", "[")>>
            \o Flatten([i \in 1..Len(value.a) |-> JSONstringify(value.a[i])])
            \o <<Tok("punct", "]")>>
      [] value.t = "object" ->
            <<Tok("punct", "{")>>
            \o Flatten([i \in 1..Len(KeyOrder) |->
                   IF Get(value, KeyOrder[i]).t = "undefined" THEN <<>>
                   ELSE <<Tok("key", KeyOrder[i])>> \o JSONstringify(Get(value, KeyOrder[i]))])
            \o <<Tok("punct", "}")>>

\* JSON.parse, by recursive descent: the value read and the rest of the text.
RECURSIVE parseValue(_), parseMembers(_, _), parseElements(_, _)
parseValue(text) ==
    LET tok == Head(text) IN
    CASE tok.k = "number" ->
            [v |-> Num(CHOOSE n \in Numbers : ToString(n) = tok.s), rest |-> Tail(text)]
      [] tok.k = "string" -> [v |-> Str(tok.s), rest |-> Tail(text)]
      [] tok.k = "literal" -> [v |-> Bool(tok.s = "true"), rest |-> Tail(text)]
      [] tok = Tok("punct", "[") -> parseElements(Tail(text), <<>>)
      [] tok = Tok("punct", "{") -> parseMembers(Tail(text), {})

parseElements(text, elems) ==
    IF Head(text) = Tok("punct", "]")
    THEN [v |-> Arr(elems), rest |-> Tail(text)]
    ELSE LET r == parseValue(text) IN parseElements(r.rest, Append(elems, r.v))

parseMembers(text, props) ==
    IF Head(text) = Tok("punct", "}")
    THEN [v |-> Obj(props), rest |-> Tail(text)]
    ELSE LET r == parseValue(Tail(text)) IN
         parseMembers(r.rest, props \cup {<<Head(text).s, r.v>>})

JSONparse(text) == parseValue(text).v

\* ------------------------------------------------------------ game snapshots

\* INSERT OR REPLACE deletes the rows that conflict with the new one on a PRIMARY KEY or
\* UNIQUE constraint; game_saves has the PRIMARY KEY id alone.
gameSavesConflicts(row) == {r \in game_saves : r.id = row.id}

\* AUTOINCREMENT: game_saves rows are never deleted.
NextSaveId == Cardinality(game_saves) + 1

\* The statement of Database.saveGameState names the columns of schema.sql; the
\* game_saves table of createTablesDirectly has no game_state column.
saveGameStateFails == schema = "direct"

\* A saveGameState that binds user id 1 to its statement whoever saves.
saveGameStateRowOfFirstUser(userId, gameData) ==
    [id |-> NextSaveId, user_id |-> 1,
     game_state |-> JSONstringify(Or(Get(gameData, "gameState"), Obj({}))),
     plots_data |-> JSONstringify(Or(Get(gameData, "plots"), Arr(<<>>))),
     camera_data |-> JSONstringify(Or(Get(gameData, "camera"),
                                      Obj({<<"x", Num(0)>>, <<"y", Num(0)>>,
                                           <<"scrollEnabled", Bool(FALSE)>>}))),
     updated_at |-> now]

\* Database.saveGameState: the row it writes.
saveGameStateRow(userId, gameData) ==
    [id |-> NextSaveId, user_id |-> userId,
     game_state |-> JSONstringify(Or(Get(gameData, "gameState"), Obj({}))),
     plots_data |-> JSONstringify(Or(Get(gameData, "plots"), Arr(<<>>))),
     camera_data |-> JSONstringify(Or(Get(gameData, "camera"),
                                      Obj({<<"x", Num(0)>>, <<"y", Num(0)>>,
                                           <<"scrollEnabled", Bool(FALSE)>>}))),
     updated_at |-> now]

\* Database.saveGameState: the table after the INSERT OR REPLACE.
saveGameState(userId, gameData) ==
    LET row == saveGameStateRow(userId, gameData) IN
    (game_saves \ gameSavesConflicts(row)) \cup {row}

\* A loadGameState without its WHERE user_id = ?: the latest rows of any user.
loadGameStateRowsOfAnyUser(userId) ==
    {r \in game_saves : \A q \in game_saves : q.updated_at <= r.updated_at}

\* Database.loadGameState: the rows ORDER BY updated_at DESC LIMIT 1 may return; rows
\* written within one second tie, and SQL leaves the order of ties open.
loadGameStateRows(userId) ==
    {r \in game_saves : /\ r.user_id = userId
                        /\ \A q \in game_saves : q.user_id = userId => q.updated_at <= r.updated_at}

\* Database.loadGameState: the gameData it builds from a row.
loadGameStateData(save) ==
    LET gameState == JSONparse(save.game_state)
        plots == JSONparse(save.plots_data)
        camera == JSONparse(save.camera_data)
    IN Obj({<<"gameState", gameState>>, <<"plots", plots>>, <<"camera", camera>>,
            <<"sustainabilityMetrics", Or(Get(gameState, "sustainabilityMetrics"), Obj({}))>>,
            <<"weather", Or(Get(gameState, "weather"), Obj({}))>>,
            <<"season", Or(Get(gameState, "season"), Obj({}))>>})

\* The payloads the save requests carry.
GameStateA ==
    Obj({<<"level", Num(3)>>, <<"coins", Num(5)>>, <<"sustainabilityRating", Str("Learning")>>})
GameStateB ==
    Obj({<<"level", Num(2)>>, <<"coins", Num(7)>>, <<"sustainabilityRating", Str("Eco Master")>>})
GameStateC == Obj({<<"coins", Num(9)>>})
Camera == Obj({<<"x", Num(0)>>, <<"y", Num(0)>>})
Payload(gameState, plots) ==
    Obj({<<"gameState", gameState>>, <<"plots", plots>>, <<"camera", Camera>>})
Payloads ==
    {Payload(GameStateA, Arr(<<>>)),
     Payload(GameStateB, Arr(<<Obj({<<"crop", Str("wheat")>>})>>)),
     Payload(GameStateC, Arr(<<>>)),
     Payload(Num(1), Arr(<<>>))}

\* validateGameSave of routes/game.js: gameState isObject, plots isArray, camera isObject.
validateGameSave(body) ==
    /\ Get(body, "gameState").t = "object"
    /\ Get(body, "plots").t = "array"
    /\ Get(body, "camera").t = "object"

\* The rows a save may add are bounded.
CanSave == Cardinality(game_saves) < MaxSaves

\* POST /save of database/routes/game.js: jwt.verify, gameData notEmpty, then
\* Database.saveGameState.
DbSave(token, gameData) ==
    /\ gen = "db"
    /\ CanSave
    /\ IF ~jwtVerify(token)
       THEN /\ resp' = Response("save", "db", 403, "Invalid or expired token", token, NoUser,
                                gameData)
            /\ UNCHANGED <<game_saves, lastSave>>
       ELSE LET user == [id |-> token.userId, username |-> token.username] IN
            IF gameData.t = "undefined"
            THEN /\ resp' = Response("save", "db", 400, "Validation failed", token, user,
                                     gameData)
                 /\ UNCHANGED <<game_saves, lastSave>>
            ELSE IF saveGameStateFails
            THEN /\ resp' = Response("save", "db", 500, "Failed to save game", token, user,
                                     gameData)
                 /\ UNCHANGED <<game_saves, lastSave>>
            ELSE /\ game_saves' = saveGameState(user.id, gameData)
                 /\ lastSave' = [lastSave EXCEPT ![user.id] = gameData]
                 /\ resp' = Response("save", "db", 200, NULL, token, user, gameData)
    /\ UNCHANGED <<now, users, user_sessions, leaderboard, achievements, schema, gen, startupVars,
                   issued, loggedOut, reqs>>

\* GET /load of database/routes/game.js: jwt.verify, then Database.loadGameState.
DbLoad(token) ==
    /\ gen = "db"
    /\ IF ~jwtVerify(token)
       THEN resp' = Response("load", "db", 403, "Invalid or expired token", token, NoUser, NULL)
       ELSE LET user == [id |-> token.userId, username |-> token.username] IN
            IF loadGameStateRows(user.id) = {}
            THEN resp' = Response("load", "db", 200, "No saved game found", token, user, NULL)
            ELSE \E save \in loadGameStateRows(user.id) :
                   resp' = Response("load", "db", 200, NULL, token, user,
                                    loadGameStateData(save))
    /\ UNCHANGED <<now, users, user_sessions, gameTables, schema, gen, startupVars,
                   issued, loggedOut, reqs>>

\* ------------------------------------------------------------ store calls of routes/game.js

\* updateUserStats(userId, stats): the users table with the user's progress summary set.
updateUserStats(userId, farmLevel, totalCoins, sustainabilityRating) ==
    {IF r.id = userId
     THEN [r EXCEPT !.farm_level = farmLevel, !.total_coins = totalCoins,
                    !.sustainability_rating = sustainabilityRating]
     ELSE r : r \in users}

\* An updateLeaderboard that adds an entry and keeps the old ones.
updateLeaderboardAppend(userId, username, category, score) ==
    leaderboard \cup {[user_id |-> userId, username |-> username, category |-> category,
                       score |-> score, updated_at |-> now]}

\* updateLeaderboard(userId, username, category, score): the leaderboard table after
\* the upsert keyed by (user, category).
updateLeaderboard(userId, username, category, score) ==
    {e \in leaderboard : ~(e.user_id = userId /\ e.category = category)}
    \cup {[user_id |-> userId, username |-> username, category |-> category,
           score |-> score, updated_at |-> now]}

\* ------------------------------------------------------------ Rt* game

\* sustainabilityScores[gameState.sustainabilityRating] || 1 of POST /save.
sustainabilityScore(rating) ==
    CASE rating = Str("Eco Master") -> 5
      [] rating = Str("Green Farmer") -> 4
      [] rating = Str("Eco Enthusiast") -> 3
      [] rating = Str("Learning") -> 2
      [] OTHER -> 1

\* The score POST /save hands to updateLeaderboard for a category.
leaderboardScore(gameState, category) ==
    CASE category = "total_coins" -> Get(gameState, "coins").n
      [] category = "farm_level" -> Get(gameState, "level").n
      [] category = "sustainability" ->
            sustainabilityScore(Get(gameState, "sustainabilityRating"))

\* if (gameState.level && gameState.coins !== undefined)
updatesStats(gameState) ==
    Truthy(Get(gameState, "level")) /\ Get(gameState, "coins").t # "undefined"

\* POST /save of routes/game.js up to the answer of saveGameState: authenticateToken,
\* validateGameSave, saveGameState.
RtSaveSaveGameState(s, token, body) ==
    /\ gen = "rt"
    /\ reqs[s] = NoReq
    /\ CanSave
    /\ IF authenticateToken(token) = {}
       THEN /\ resp' = Response("save", "rt", 403, "Invalid or expired token", token, NoUser,
                                body)
            /\ UNCHANGED <<game_saves, lastSave, reqs>>
       ELSE \E user \in authenticateToken(token) :
              IF ~validateGameSave(body)
              THEN /\ resp' = Response("save", "rt", 400, "Validation failed", token, user, body)
                   /\ UNCHANGED <<game_saves, lastSave, reqs>>
              ELSE IF saveGameStateFails
              THEN /\ resp' = Response("save", "rt", 500, "Failed to save game", token, user,
                                       body)
                   /\ UNCHANGED <<game_saves, lastSave, reqs>>
              ELSE /\ game_saves' = saveGameState(user.id, body)
                   /\ lastSave' = [lastSave EXCEPT ![user.id] = body]
                   /\ IF updatesStats(Get(body, "gameState"))
                      THEN /\ reqs' = [reqs EXCEPT ![s] =
                                         Req("save", "updateUserStats", NULL, NULL, NULL,
                                             user, token, body)]
                           /\ resp' = NoResponse
                      ELSE /\ resp' = Response("save", "rt", 200, NULL, token, user, body)
                           /\ UNCHANGED reqs
    /\ UNCHANGED <<now, users, user_sessions, leaderboard, achievements, schema, gen, startupVars,
                   issued, loggedOut>>

\* ... the answer of updateUserStats.
RtSaveUpdateUserStats(s) ==
    LET r == reqs[s]
        gameState == Get(r.body, "gameState")
        rating == Or(Get(gameState, "sustainabilityRating"), Str("Beginner"))
    IN
    /\ r.op = "save" /\ r.pc = "updateUserStats"
    /\ users' = updateUserStats(r.user.id, Get(gameState, "level").n,
                                Get(gameState, "coins").n, rating.s)
    /\ Goto(s, "total_coins")
    /\ resp' = NoResponse
    /\ UNCHANGED <<now, user_sessions, gameTables, schema, gen, startupVars, issued, loggedOut>>

\* The category POST /save updates after this one.
nextCategory(category) ==
    CASE category = "total_coins" -> "farm_level"
      [] category = "farm_level" -> "sustainability"
      [] OTHER -> "done"

\* ... the answers of the three updateLeaderboard calls; the last is followed by the
\* answer to the caller.
RtSaveUpdateLeaderboard(s) ==
    LET r == reqs[s]
        gameState == Get(r.body, "gameState")
    IN
    /\ r.op = "save" /\ r.pc \in {"total_coins", "farm_level", "sustainability"}
    /\ leaderboard' = updateLeaderboard(r.user.id, r.user.username, r.pc,
                                        leaderboardScore(gameState, r.pc))
    /\ IF nextCategory(r.pc) = "done"
       THEN /\ Finish(s)
            /\ resp' = Response("save", "rt", 200, NULL, r.token, r.user, r.body)
       ELSE /\ Goto(s, nextCategory(r.pc))
            /\ resp' = NoResponse
    /\ UNCHANGED <<now, users, user_sessions, game_saves, achievements, lastSave, schema, gen, startupVars,
                   issued, loggedOut>>

\* GET /load of routes/game.js.
RtLoad(token) ==
    /\ gen = "rt"
    /\ IF authenticateToken(token) = {}
       THEN resp' = Response("load", "rt", 403, "Invalid or expired token", token, NoUser, NULL)
       ELSE \E user \in authenticateToken(token) :
              IF loadGameStateRows(user.id) = {}
              THEN resp' = Response("load", "rt", 404, "No save data found", token, user, NULL)
              ELSE \E save \in loadGameStateRows(user.id) :
                     resp' = Response("load", "rt", 200, NULL, token, user,
                                      loadGameStateData(save))
    /\ UNCHANGED <<now, users, user_sessions, gameTables, schema, gen, startupVars,
                   issued, loggedOut, reqs>>

\* DELETE /reset of routes/game.js: authenticateToken, then updateUserStats with the
\* defaults; the snapshot and the leaderboard entries stay.
RtReset(token) ==
    /\ gen = "rt"
    /\ IF authenticateToken(token) = {}
       THEN /\ resp' = Response("reset", "rt", 403, "Invalid or expired token", token, NoUser,
                                NULL)
            /\ UNCHANGED users
       ELSE \E user \in authenticateToken(token) :
              /\ users' = updateUserStats(user.id, 1, 100, "Beginner")
              /\ resp' = Response("reset", "rt", 200, NULL, token, user, NULL)
    /\ UNCHANGED <<now, user_sessions, gameTables, schema, gen, startupVars,
                   issued, loggedOut, reqs>>

\* ------------------------------------------------------------ achievements

AchievementNames == {"first_harvest", "eco_warrior"}

\* POST /achievement of database/routes/game.js: jwt.verify, achievementName notEmpty,
\* then the success answer; nothing is stored.
DbAchievement(token, achievementName) ==
    /\ gen = "db"
    /\ resp' = IF ~jwtVerify(token)
               THEN Response("achievement", "db", 403, "Invalid or expired token", token,
                             NoUser, achievementName)
               ELSE IF achievementName = ""
               THEN Response("achievement", "db", 400, "Validation failed", token,
                             [id |-> token.userId, username |-> token.username],
                             achievementName)
               ELSE Response("achievement", "db", 200, NULL, token,
                             [id |-> token.userId, username |-> token.username],
                             achievementName)
    /\ UNCHANGED <<now, users, user_sessions, gameTables, schema, gen, startupVars,
                   issued, loggedOut, reqs>>

\* addAchievement(userId, {type, name, description, points}) throws DuplicateAchievement
\* when the user holds an achievement of that name.
addAchievementFails(userId, name) ==
    \E a \in achievements : a.user_id = userId /\ a.achievement_name = name

\* addAchievement: the achievements table with the new record.
addAchievement(userId, type, name, points) ==
    achievements \cup {[id |-> Cardinality(achievements) + 1, user_id |-> userId,
                        achievement_type |-> type, achievement_name |-> name,
                        points |-> points, earned_at |-> now]}

\* The records an add may store are bounded.
CanAdd == Cardinality(achievements) < MaxAchievements

\* POST /achievement of routes/game.js: authenticateToken, type and name notEmpty,
\* addAchievement; whatever it throws is answered 500.
RtAchievement(token, type, name) ==
    /\ gen = "rt"
    /\ CanAdd
    /\ IF authenticateToken(token) = {}
       THEN /\ resp' = Response("achievement", "rt", 403, "Invalid or expired token", token,
                                NoUser, name)
            /\ UNCHANGED achievements
       ELSE \E user \in authenticateToken(token) :
              IF type = "" \/ name = ""
              THEN /\ resp' = Response("achievement", "rt", 400, "Validation failed", token,
                                       user, name)
                   /\ UNCHANGED achievements
              ELSE IF addAchievementFails(user.id, name)
              THEN /\ resp' = Response("achievement", "rt", 500, "Failed to add achievement",
                                       token, user, name)
                   /\ UNCHANGED achievements
              ELSE /\ achievements' = addAchievement(user.id, type, name, 0)
                   /\ resp' = Response("achievement", "rt", 201, NULL, token, user, name)
    /\ UNCHANGED <<now, users, user_sessions, game_saves, leaderboard, lastSave, schema, gen, startupVars,
                   issued, loggedOut, reqs>>

\* ------------------------------------------------------------ leaderboards

\* The sequences that list every element of a set once.
RECURSIVE Orderings(_)
Orderings(rows) ==
    IF rows = {} THEN {<<>>}
    ELSE UNION {{<<r>> \o seq : seq \in Orderings(rows \ {r})} : r \in rows}

\* The orderings by score, lowest first.
OrderByScoreAsc(rows) ==
    {seq \in Orderings(rows) : \A i, j \in 1..Len(seq) : i < j => seq[i].score <= seq[j].score}

\* ORDER BY score DESC: rows of equal score come in any order.
OrderByScoreDesc(rows) ==
    {seq \in Orderings(rows) : \A i, j \in 1..Len(seq) : i < j => seq[i].score >= seq[j].score}

\* The limits of the leaderboard handlers: the source's 10 (default), 100 (ceiling of
\* GET /:category) and 1000 (the "full" leaderboard of the position handler), scaled
\* to the tables of the model; their order is kept.
DefaultLimit == 1
LimitCeiling == 2
PositionLimit == 3

\* LIMIT ?: SQLite puts no upper bound on the rows when the limit is negative.
Limit(seq, limit) ==
    IF limit < 0 THEN seq
    ELSE SubSeq(seq, 1, IF limit < Len(seq) THEN limit ELSE Len(seq))

\* parseInt(req.query.limit) || 10: NaN (no limit in the query) and 0 are falsy.
parseLimit(q) == IF q = <<>> THEN DefaultLimit ELSE IF q[1] = 0 THEN DefaultLimit ELSE q[1]

\* A game_saves row of the table createTablesDirectly creates; rows are written in the
\* order of their ids, one clock value apart.
DirectSaveRow(id, userId, level, coins, score) ==
    [id |-> id, user_id |-> userId, game_data |-> <<>>, level |-> level, coins |-> coins,
     sustainability_score |-> score, updated_at |-> id - 1]

\* Database.getLeaderboard: the column a category ranks by, NULL for the default branch.
getLeaderboardColumn(category) ==
    CASE category = "coins" -> "coins"
      [] category = "level" -> "level"
      [] category = "sustainability" -> "sustainability_score"
      [] OTHER -> NULL

\* Database.getLeaderboard: the statements name columns of the game_saves table of
\* createTablesDirectly, which the table of schema.sql has not.
getLeaderboardFails(category) ==
    getLeaderboardColumn(category) = NULL \/ schema = "file"

\* Database.getLeaderboard: users JOIN game_saves, with the category's column as score.
getLeaderboardJoin(category) ==
    {[id |-> gs.id, username |-> u.username, score |-> gs[getLeaderboardColumn(category)],
      updated_at |-> gs.updated_at] :
        <<u, gs>> \in {<<u, gs>> \in users \X game_saves : u.id = gs.user_id}}

\* Database.getLeaderboard: the lists it may resolve with, rank being index + 1.
getLeaderboard(category, limit) ==
    {[index \in 1..Len(rows) |->
          [rank |-> index, username |-> rows[index].username, score |-> rows[index].score,
           lastUpdated |-> rows[index].updated_at]] :
        rows \in {Limit(seq, limit) : seq \in OrderByScoreDesc(getLeaderboardJoin(category))}}

\* GET /leaderboard/:category? of database/routes/game.js.
DbLeaderboard(category, q) ==
    LET limit == parseLimit(q)
        query == Query(category, q, <<limit>>)
    IN
    /\ gen = "db"
    /\ IF getLeaderboardFails(category)
       THEN resp' = Asked(Response("leaderboard", "db", 500, "Failed to get leaderboard",
                                   NoToken, NoUser, <<>>), query)
       ELSE \E entries \in getLeaderboard(category, limit) :
              resp' = Asked(Response("leaderboard", "db", 200, NULL, NoToken, NoUser, entries),
                            query)
    /\ UNCHANGED <<now, users, user_sessions, gameTables, schema, gen, startupVars,
                   issued, loggedOut, reqs>>

\* const validCategories of GET /:category of routes/leaderboard.js.
validCategories == {"total_coins", "farm_level", "sustainability"}

\* getLeaderboard(category, limit) of the store of routes/*.js fails with
\* UnknownCategory for a category it does not know and with InvalidArgument for a
\* limit that is not positive.
getLeaderboardEntriesFails(category, limit) ==
    category \notin validCategories \/ limit <= 0

\* getLeaderboard(category, limit) of the store of routes/*.js: the category's entries
\* by score, highest first, each with its position as rank_position.
getLeaderboardEntries(category, limit) ==
    {[index \in 1..Len(rows) |->
          [rank_position |-> index, user_id |-> rows[index].user_id,
           username |-> rows[index].username, score |-> rows[index].score,
           updated_at |-> rows[index].updated_at]] :
        rows \in {Limit(seq, limit) :
                    seq \in OrderByScoreDesc({e \in leaderboard : e.category = category})}}

\* An off-by-one ratings table: the array without its leading ''.
ratingsShifted(score) ==
    CASE score = 0 -> "Beginner"
      [] score = 1 -> "Learning"
      [] score = 2 -> "Eco Enthusiast"
      [] score = 3 -> "Green Farmer"
      [] score = 4 -> "Eco Master"
      [] OTHER -> "Unknown"

\* ratings[entry.score] || 'Unknown' of routes/leaderboard.js, with
\* ratings = ['', 'Beginner', 'Learning', 'Eco Enthusiast', 'Green Farmer', 'Eco Master'].
ratings(score) ==
    CASE score = 1 -> "Beginner"
      [] score = 2 -> "Learning"
      [] score = 3 -> "Eco Enthusiast"
      [] score = 4 -> "Green Farmer"
      [] score = 5 -> "Eco Master"
      [] OTHER -> "Unknown"

\* formattedScore of GET /:category, by the switch on the category.
formattedScore(category, score) ==
    CASE category = "total_coins" -> ToString(score) \o " coins"
      [] category = "farm_level" -> "Level " \o ToString(score)
      [] category = "sustainability" -> ratings(score)

\* leaderboard.map(entry => ({rank: entry.rank_position, ...})) of routes/leaderboard.js.
formattedLeaderboard(category, entries) ==
    [index \in 1..Len(entries) |->
        [rank |-> entries[index].rank_position, username |-> entries[index].username,
         score |-> entries[index].score,
         formattedScore |-> formattedScore(category, entries[index].score),
         updatedAt |-> entries[index].updated_at]]

\* badges of GET /sustainability/detailed.
badges(score) ==
    (IF score >= 5 THEN <<"Eco Master">> ELSE <<>>)
    \o (IF score >= 4 THEN <<"Green Farmer">> ELSE <<>>)
    \o (IF score >= 3 THEN <<"Eco Enthusiast">> ELSE <<>>)

\* detailedEntries of GET /sustainability/detailed.
detailedEntries(entries) ==
    [index \in 1..Len(entries) |->
        [rank |-> entries[index].rank_position, username |-> entries[index].username,
         sustainabilityRating |-> ratings(entries[index].score),
         score |-> entries[index].score, badges |-> badges(entries[index].score),
         updatedAt |-> entries[index].updated_at]]

\* GET /:category of routes/leaderboard.js.
RtLeaderboard(category, q) ==
    LET limit == parseLimit(q) IN
    /\ gen = "rt"
    /\ IF category \notin validCategories
       THEN resp' = Asked(Response("leaderboard", "rt", 400, "Invalid category", NoToken,
                                   NoUser, <<>>), Query(category, q, <<>>))
       ELSE IF limit > LimitCeiling
       THEN resp' = Asked(Response("leaderboard", "rt", 400, "Limit cannot exceed 100", NoToken,
                                   NoUser, <<>>), Query(category, q, <<>>))
       ELSE IF getLeaderboardEntriesFails(category, limit)
       THEN resp' = Asked(Response("leaderboard", "rt", 500, "Failed to fetch leaderboard",
                                   NoToken, NoUser, <<>>), Query(category, q, <<limit>>))
       ELSE \E entries \in getLeaderboardEntries(category, limit) :
              resp' = Asked(Response("leaderboard", "rt", 200, NULL, NoToken, NoUser,
                                     formattedLeaderboard(category, entries)),
                            Query(category, q, <<limit>>))
    /\ UNCHANGED <<now, users, user_sessions, gameTables, schema, gen, startupVars,
                   issued, loggedOut, reqs>>

\* GET /sustainability/detailed of routes/leaderboard.js: the limit of the query goes
\* to getLeaderboard as it is.
RtSustainabilityDetailed(q) ==
    LET limit == parseLimit(q)
        query == Query("sustainability", q, <<limit>>)
    IN
    /\ gen = "rt"
    /\ IF getLeaderboardEntriesFails("sustainability", limit)
       THEN resp' = Asked(Response("leaderboard", "rt", 500,
                                   "Failed to fetch detailed sustainability leaderboard",
                                   NoToken, NoUser, <<>>), query)
       ELSE \E entries \in getLeaderboardEntries("sustainability", limit) :
              resp' = Asked(Response("leaderboard", "rt", 200, NULL, NoToken, NoUser,
                                     detailedEntries(entries)), query)
    /\ UNCHANGED <<now, users, user_sessions, gameTables, schema, gen, startupVars,
                   issued, loggedOut, reqs>>

\* JavaScript's null.
Null == [t |-> "null"]

\* positions[category] of GET /user/:userId/position: the user's entry of the list, or
\* rank null and score 0.
userPosition(fullLeaderboard, userId) ==
    IF \E i \in 1..Len(fullLeaderboard) : fullLeaderboard[i].user_id = userId
    THEN LET userEntry == fullLeaderboard[CHOOSE i \in 1..Len(fullLeaderboard) :
                                             fullLeaderboard[i].user_id = userId]
         IN [rank |-> Num(userEntry.rank_position), score |-> userEntry.score,
             totalPlayers |-> Len(fullLeaderboard)]
    ELSE [rank |-> Null, score |-> 0, totalPlayers |-> Len(fullLeaderboard)]

\* GET /user/:userId/position of routes/leaderboard.js: getLeaderboard(category, 1000)
\* for each category, and the user's entry in each list.
RtUserPosition(userId) ==
    /\ gen = "rt"
    /\ \E coins \in getLeaderboardEntries("total_coins", PositionLimit),
          level \in getLeaderboardEntries("farm_level", PositionLimit),
          sustainability \in getLeaderboardEntries("sustainability", PositionLimit) :
          resp' = Asked(Response("position", "rt", 200, NULL, NoToken,
                                 [id |-> userId, username |-> NULL],
                                 [total_coins |-> userPosition(coins, userId),
                                  farm_level |-> userPosition(level, userId),
                                  sustainability |-> userPosition(sustainability, userId)]),
                        Query("all", <<>>, <<PositionLimit>>))
    /\ UNCHANGED <<now, users, user_sessions, gameTables, schema, gen, startupVars,
                   issued, loggedOut, reqs>>

\* ------------------------------------------------------------ startup and schema setup

\* tables.length of createTablesDirectly, and the number of CREATE statements of
\* schema.sql (six tables, eight indexes, two views).
TablesLength == 6
SchemaStatements == 16

\* The statements the branch of initSchema runs: db.exec(schema) for schema.sql, one
\* db.run per table for createTablesDirectly.
Statements(sch) == IF sch = "file" THEN 1..SchemaStatements ELSE 1..TablesLength

\* What a step leaves alone when it touches only the process and its schema setup.
storeVars == <<now, users, user_sessions, gameTables, schema, gen, issued, loggedOut, reqs>>

\* reject(err) of initSchema: the constructor calls this.initSchema() and drops the
\* promise, so the rejection is unhandled. Node ends the process on it by default
\* (--unhandled-rejections=throw); under warn or none the process goes on.
Rejected(err) ==
    IF err /\ schemaPromise = "running"
    THEN exit' \in {"crash", "running"}
    ELSE exit' = exit

\* The callback of new sqlite3.Database(path, callback) in the Database constructor:
\* an error is logged; without one initSchema starts.
ConnectionCallback(err) ==
    /\ exit = "running" /\ conn = "opening"
    /\ IF err
       THEN conn' = "failed" /\ UNCHANGED schemaPromise
       ELSE conn' = "open" /\ schemaPromise' = "running"
    /\ resp' = NoResponse
    /\ UNCHANGED <<storeVars, program, main, exit, created, completed, hasError>>

\* initSchema with schema.sql: db.exec(schema, callback) runs the statements in their
\* order and stops at the first that fails; the callback rejects or resolves.
initSchemaExec(err) ==
    /\ exit = "running" /\ conn = "open" /\ schema = "file"
    /\ schemaPromise = "running"
    /\ LET index == CHOOSE i \in Statements(schema) :
                       /\ created[i] = "queued"
                       /\ \A j \in Statements(schema) : j < i => created[j] = "ok"
       IN /\ created' = [created EXCEPT ![index] = IF err THEN "failed" ELSE "ok"]
          /\ schemaPromise' = IF err THEN "rejected"
                              ELSE IF index = SchemaStatements THEN "resolved"
                              ELSE "running"
    /\ Rejected(err)
    /\ resp' = NoResponse
    /\ UNCHANGED <<storeVars, program, main, conn, completed, hasError>>

\* createTablesDirectly: the callback of the db.run of tables[index].
createTablesDirectlyCallback(index, err) ==
    /\ exit = "running" /\ conn = "open" /\ schema = "direct"
    /\ schemaPromise # "idle"
    /\ created[index] = "queued"
    /\ created' = [created EXCEPT ![index] = IF err THEN "failed" ELSE "ok"]
    /\ IF err /\ ~hasError
       THEN /\ hasError' = TRUE
            /\ schemaPromise' = "rejected"
            /\ UNCHANGED completed
       ELSE /\ completed' = completed + 1
            /\ schemaPromise' = IF completed + 1 = TablesLength /\ ~hasError
                                THEN "resolved" ELSE schemaPromise
            /\ UNCHANGED hasError
    /\ Rejected(err /\ ~hasError)
    /\ resp' = NoResponse
    /\ UNCHANGED <<storeVars, program, main, conn>>

\* init-db.js: the setTimeout of 2000 ms fires and the script logs 'Database
\* initialization completed successfully!'.
InitDbTimer ==
    /\ exit = "running" /\ program = "init-db" /\ main = "waiting"
    /\ main' = "reported"
    /\ resp' = NoResponse
    /\ UNCHANGED <<storeVars, program, exit, conn, schemaPromise, created, completed, hasError>>

\* init-db.js: await db.close(); process.exit(0). Database.close resolves whether or
\* not the close failed.
InitDbClose ==
    /\ exit = "running" /\ program = "init-db" /\ main = "reported"
    /\ main' = "closed"
    /\ conn' = "closed"
    /\ exit' = "exit0"
    /\ resp' = NoResponse
    /\ UNCHANGED <<storeVars, program, schemaPromise, created, completed, hasError>>

\* The server once app.listen has run: a request reaches a route handler, which runs a
\* statement on req.db that reads or writes the table; the handler answers 500 from
\* its catch when the statement fails.
HandleRequest(table) ==
    /\ exit = "running" /\ program = "server" /\ main = "listening"
    /\ IF conn = "open" /\ created[table] = "ok"
       THEN resp' = Response("request", "db", 200, NULL, NoToken, NoUser, NULL)
       ELSE resp' = Response("request", "db", 500, "Internal server error", NoToken, NoUser,
                             NULL)
    /\ UNCHANGED <<storeVars, startupVars>>

\* The process once its startup is over: the connection open and every statement of
\* the schema setup run.
Started(sch) ==
    /\ program = "server" /\ main = "listening" /\ exit = "running"
    /\ conn = "open" /\ schemaPromise = "resolved"
    /\ created = [i \in Statements(sch) |-> "ok"]
    /\ completed = (IF sch = "direct" THEN TablesLength ELSE 0)
    /\ hasError = FALSE

\* ------------------------------------------------------------ clock

Tick ==
    /\ now < MaxTime
    /\ now' = now + 1
    /\ resp' = NoResponse
    /\ UNCHANGED <<users, user_sessions, gameTables, schema, gen, startupVars,
                   issued, loggedOut, reqs>>

\* ------------------------------------------------------------ specifications

InitStore(g, sch) ==
    /\ gen = g
    /\ now = 0
    /\ users = {}
    /\ user_sessions = {}
    /\ game_saves = {}
    /\ leaderboard = {}
    /\ achievements = {}
    /\ lastSave = [u \in UserIds |-> Undefined]
    /\ schema = sch
    /\ issued = {}
    /\ loggedOut = {}
    /\ reqs = [s \in Slots |-> NoReq]
    /\ resp = NoResponse
    /\ Started(sch)

\* The Database class's initSchema takes the schema.sql branch when the file is there,
\* else createTablesDirectly; the store of the routes/*.js handlers is the one of
\* schema.sql.
Init ==
    \/ \E sch \in {"file", "direct"} : InitStore("db", sch)
    \/ InitStore("rt", "file")

\* Registration alone, every input, two requests in flight.
NextRegister ==
    \/ \E u \in Usernames, e \in RawEmails, p \in RegPasswords : DbRegister(u, e, p)
    \/ \E s \in Slots, u \in Usernames, e \in RawEmails, p \in RegPasswords :
          RtRegisterGetUserByEmail(s, u, e, p)
    \/ \E s \in Slots : RtRegisterGetUserByUsername(s)
    \/ \E s \in Slots : RtRegisterCreateUser(s)
    \/ \E s \in Slots : RtRegisterCreateSession(s)

SpecRegister == Init /\ [][NextRegister]_vars

\* The accounts the session and game specifications register.
Accounts == {<<"ann", "a@x.io">>, <<"bob", "b@x.io">>}

\* What a login is asked with: a username or an email, registered or not.
LoginIdentifiers == Usernames \cup {"a@x.io", "b@x.io"}

\* Tokens and sessions: issue, validate, revoke, expire.
NextSession ==
    \/ Tick
    \/ \E a \in Accounts, p \in RegPasswords : DbRegister(a[1], a[2], p)
    \/ \E a \in Accounts, p \in RegPasswords : RtRegisterGetUserByEmail(1, a[1], a[2], p)
    \/ RtRegisterGetUserByUsername(1)
    \/ RtRegisterCreateUser(1)
    \/ RtRegisterCreateSession(1)
    \/ \E i \in LoginIdentifiers, p \in Passwords : DbLogin(i, p)
    \/ \E i \in LoginIdentifiers, p \in Passwords : RtLogin(i, p)
    \/ \E t \in PresentedTokens : DbVerify(t)
    \/ \E t \in IssuedTokens : DbLogout(t)
    \/ \E t \in PresentedTokens : RtVerify(t)
    \/ \E t \in IssuedTokens : RtLogout(t)

SpecSession == Init /\ [][NextSession]_vars

\* Snapshots and the leaderboard entries the saves maintain.
\* Snapshots of two users and the leaderboard entries their saves maintain, one
\* request in flight at a time.
NextGame ==
    \/ Tick
    \/ \E a \in Accounts, p \in RegPasswords : DbRegister(a[1], a[2], p)
    \/ \E a \in Accounts, p \in RegPasswords : RtRegisterGetUserByEmail(1, a[1], a[2], p)
    \/ RtRegisterGetUserByUsername(1)
    \/ RtRegisterCreateUser(1)
    \/ RtRegisterCreateSession(1)
    \/ \E t \in IssuedTokens, P \in Payloads : DbSave(t, P)
    \/ \E t \in PresentedTokens : DbLoad(t)
    \/ \E t \in IssuedTokens, P \in Payloads : RtSaveSaveGameState(1, t, P)
    \/ RtSaveUpdateUserStats(1)
    \/ RtSaveUpdateLeaderboard(1)
    \/ \E t \in PresentedTokens : RtLoad(t)

SpecGame == Init /\ [][NextGame]_vars

\* One user's saves, two requests in flight.
NextConcurrentSave ==
    \/ Tick
    \/ \E p \in RegPasswords : DbRegister("ann", "a@x.io", p)
    \/ \E p \in RegPasswords : RtRegisterGetUserByEmail(1, "ann", "a@x.io", p)
    \/ RtRegisterGetUserByUsername(1)
    \/ RtRegisterCreateUser(1)
    \/ RtRegisterCreateSession(1)
    \/ \E t \in IssuedTokens, P \in Payloads : DbSave(t, P)
    \/ \E t \in IssuedTokens : DbLoad(t)
    \/ \E s \in Slots, t \in IssuedTokens, P \in Payloads : RtSaveSaveGameState(s, t, P)
    \/ \E s \in Slots : RtSaveUpdateUserStats(s)
    \/ \E s \in Slots : RtSaveUpdateLeaderboard(s)
    \/ \E t \in IssuedTokens : RtLoad(t)

SpecConcurrentSave == Init /\ [][NextConcurrentSave]_vars

\* Achievements of two users.
NextAchievement ==
    \/ Tick
    \/ \E a \in Accounts, p \in RegPasswords : DbRegister(a[1], a[2], p)
    \/ \E a \in Accounts, p \in RegPasswords : RtRegisterGetUserByEmail(1, a[1], a[2], p)
    \/ RtRegisterGetUserByUsername(1)
    \/ RtRegisterCreateUser(1)
    \/ RtRegisterCreateSession(1)
    \/ \E t \in PresentedTokens, n \in AchievementNames \cup {""} : DbAchievement(t, n)
    \/ \E t \in PresentedTokens, n \in AchievementNames \cup {""} :
          RtAchievement(t, "farming", n)

SpecAchievement == Init /\ [][NextAchievement]_vars

\* The two registered users of the leaderboard specification.
TwoUsers ==
    {UserRow(1, "ann", "a@x.io", bcryptHash("pw1")), UserRow(2, "bob", "b@x.io", bcryptHash("pw1"))}

ScoreValues == {5, 7}

\* The game_saves tables of createTablesDirectly with n rows.
DirectSaves(n) ==
    {{DirectSaveRow(i, f[i][1], 1, f[i][2], f[i][3]) : i \in 1..n} :
        f \in [1..n -> UserIds \X ScoreValues \X {0, 1}]}

\* The users that hold leaderboard entries.
RankedUserIds == 1..MaxEntries
RankedNames == <<"ann", "bob", "cat", "dan", "eve", "fay">>
RankedEmails == <<"a@x.io", "b@x.io", "c@x.io", "d@x.io", "e@x.io", "f@x.io">>
RankedUsers ==
    {UserRow(u, RankedNames[u], RankedEmails[u], bcryptHash("pw1")) : u \in RankedUserIds}

\* The leaderboard tables with at most one entry per user, in one category.
StoredLeaderboards ==
    UNION {{{[user_id |-> u, username |-> RankedNames[u], category |-> ch[1],
              score |-> f[u][1], updated_at |-> f[u][2]] : u \in ch[2]} :
               f \in [ch[2] -> ScoreValues \X {0, 1}]} :
             ch \in {"total_coins", "sustainability"} \X (SUBSET RankedUserIds)}

\* A store that holds scores: rows of the game_saves table the Database class ranks,
\* or entries of the leaderboard table the store of routes/*.js ranks.
InitLeaderboard ==
    /\ now = MaxRows
    /\ user_sessions = {}
    /\ achievements = {}
    /\ lastSave = [u \in UserIds |-> Undefined]
    /\ issued = {}
    /\ loggedOut = {}
    /\ reqs = [s \in Slots |-> NoReq]
    /\ resp = NoResponse
    /\ \/ /\ gen = "db" /\ schema = "direct" /\ leaderboard = {} /\ users = TwoUsers
          /\ \E n \in 0..MaxRows : game_saves \in DirectSaves(n)
       \/ /\ gen = "db" /\ schema = "file" /\ leaderboard = {} /\ game_saves = {}
          /\ users = TwoUsers
       \/ /\ gen = "rt" /\ schema = "file" /\ game_saves = {} /\ users = RankedUsers
          /\ leaderboard \in StoredLeaderboards
    /\ Started(schema)

LeaderboardCategories == {"coins", "level", "sustainability", "total_coins", "xp"}

\* The limits a query string carries: none, or a number from -1 to one past the highest
\* limit of the handlers.
LimitQueries == {<<>>} \cup {<<n>> : n \in (-1)..(PositionLimit + 1)}

\* The queries change nothing in the store, so what a query may answer after other
\* queries it may answer as the first one: each behaviour asks one.
NextLeaderboard ==
    /\ resp = NoResponse
    /\ \/ \E c \in LeaderboardCategories, q \in LimitQueries : DbLeaderboard(c, q)
       \/ \E c \in LeaderboardCategories, q \in LimitQueries : RtLeaderboard(c, q)
       \/ \E q \in LimitQueries : RtSustainabilityDetailed(q)
       \/ \E u \in RankedUserIds : RtUserPosition(u)

SpecLeaderboard == InitLeaderboard /\ [][NextLeaderboard]_vars

\* The labels of the sustainability rating, lowest first.
RatingLabels == <<"Beginner", "Learning", "Eco Enthusiast", "Green Farmer", "Eco Master">>

\* Save payloads that differ in the rating of their state: each label of the rating,
\* a label outside the rating, and no label.
RatingPayloads ==
    {Payload(Obj({<<"level", Num(1)>>, <<"coins", Num(5)>>,
                  <<"sustainabilityRating", Str(label)>>}), Arr(<<>>)) :
        label \in {RatingLabels[i] : i \in DOMAIN RatingLabels} \cup {"Expert"}}
    \cup {Payload(Obj({<<"level", Num(1)>>, <<"coins", Num(5)>>}), Arr(<<>>))}

\* One user's saves under each rating, and the leaderboards that show the rating.
NextRating ==
    \/ \E p \in RegPasswords : RtRegisterGetUserByEmail(1, "ann", "a@x.io", p)
    \/ RtRegisterGetUserByUsername(1)
    \/ RtRegisterCreateUser(1)
    \/ RtRegisterCreateSession(1)
    \/ \E t \in IssuedTokens, P \in RatingPayloads : RtSaveSaveGameState(1, t, P)
    \/ RtSaveUpdateUserStats(1)
    \/ RtSaveUpdateLeaderboard(1)
    \/ \E c \in validCategories : RtLeaderboard(c, <<>>)
    \/ RtSustainabilityDetailed(<<>>)

SpecRating == InitStore("rt", "file") /\ [][NextRating]_vars

\* Save payloads with a part that is missing or a raw scalar: the state a number, no
\* plots, the plots a string, no camera, the camera a number.
MalformedPayloads ==
    {Payload(Num(1), Arr(<<>>)),
     Obj({<<"gameState", GameStateA>>, <<"camera", Camera>>}),
     Payload(GameStateA, Str("wheat")),
     Obj({<<"gameState", GameStateA>>, <<"plots", Arr(<<>>)>>}),
     Obj({<<"gameState", GameStateA>>, <<"plots", Arr(<<>>)>>, <<"camera", Num(0)>>})}

\* One user's saves of well-formed and malformed payloads.
NextMalformedSave ==
    \/ \E p \in RegPasswords : DbRegister("ann", "a@x.io", p)
    \/ \E p \in RegPasswords : RtRegisterGetUserByEmail(1, "ann", "a@x.io", p)
    \/ RtRegisterGetUserByUsername(1)
    \/ RtRegisterCreateUser(1)
    \/ RtRegisterCreateSession(1)
    \/ \E t \in IssuedTokens, P \in Payloads \cup MalformedPayloads : DbSave(t, P)
    \/ \E t \in IssuedTokens, P \in Payloads \cup MalformedPayloads :
          RtSaveSaveGameState(1, t, P)
    \/ RtSaveUpdateUserStats(1)
    \/ RtSaveUpdateLeaderboard(1)
    \/ \E t \in IssuedTokens : DbLoad(t)
    \/ \E t \in IssuedTokens : RtLoad(t)

SpecMalformedSave == Init /\ [][NextMalformedSave]_vars

\* A process at the start of its main flow, on a database without tables: the server
\* after app.listen, or init-db.js at its await of the timer. new Database() has
\* returned with the connection opening, or has thrown and the catch around it has
\* ended the process with process.exit(1).
InitStartup ==
    /\ gen = "db"
    /\ now = 0
    /\ users = {}
    /\ user_sessions = {}
    /\ game_saves = {}
    /\ leaderboard = {}
    /\ achievements = {}
    /\ lastSave = [u \in UserIds |-> Undefined]
    /\ issued = {}
    /\ loggedOut = {}
    /\ reqs = [s \in Slots |-> NoReq]
    /\ resp = NoResponse
    /\ schema \in {"file", "direct"}
    /\ \/ program = "server" /\ main = "listening"
       \/ program = "init-db" /\ main = "waiting"
    /\ exit \in {"running", "exit1"}
    /\ conn = "opening"
    /\ schemaPromise = "idle"
    /\ created = [i \in Statements(schema) |-> "queued"]
    /\ completed = 0
    /\ hasError = FALSE

\* The connection, the schema setup, the init script and the first requests.
NextStartup ==
    \/ \E err \in BOOLEAN : ConnectionCallback(err)
    \/ \E err \in BOOLEAN : initSchemaExec(err)
    \/ \E index \in 1..TablesLength, err \in BOOLEAN : createTablesDirectlyCallback(index, err)
    \/ InitDbTimer
    \/ InitDbClose
    \/ \E table \in 1..TablesLength : HandleRequest(table)

SpecStartup == InitStartup /\ [][NextStartup]_vars

\* The requests of two users that write game records: saves, loads, achievements and
\* resets under each user's tokens.
NextOwnership ==
    \/ \E a \in Accounts, p \in RegPasswords : DbRegister(a[1], a[2], p)
    \/ \E a \in Accounts, p \in RegPasswords : RtRegisterGetUserByEmail(1, a[1], a[2], p)
    \/ RtRegisterGetUserByUsername(1)
    \/ RtRegisterCreateUser(1)
    \/ RtRegisterCreateSession(1)
    \/ \E t \in PresentedTokens, P \in {Payload(GameStateA, Arr(<<>>))} : DbSave(t, P)
    \/ \E t \in PresentedTokens : DbLoad(t)
    \/ \E t \in PresentedTokens, P \in {Payload(GameStateA, Arr(<<>>))} :
          RtSaveSaveGameState(2, t, P)
    \/ RtSaveUpdateUserStats(2)
    \/ RtSaveUpdateLeaderboard(2)
    \/ \E t \in PresentedTokens : RtLoad(t)
    \/ \E t \in PresentedTokens, n \in AchievementNames : DbAchievement(t, n)
    \/ \E t \in PresentedTokens, n \in AchievementNames : RtAchievement(t, "farming", n)
    \/ \E t \in PresentedTokens : RtReset(t)

SpecOwnership == Init /\ [][NextOwnership]_vars

\* What a registration is asked with when usernames may look like emails and emails
\* like usernames.
IdentifierInputs == {"ann", "a@x.io", "b@x.io"}

\* Registrations and logins whose usernames and emails are drawn from the same strings.
NextIdentifier ==
    \/ \E u \in IdentifierInputs, e \in IdentifierInputs, p \in Passwords : DbRegister(u, e, p)
    \/ \E u \in IdentifierInputs, e \in IdentifierInputs, p \in Passwords :
          RtRegisterGetUserByEmail(1, u, e, p)
    \/ RtRegisterGetUserByUsername(1)
    \/ RtRegisterCreateUser(1)
    \/ RtRegisterCreateSession(1)
    \/ \E i \in IdentifierInputs, p \in Passwords : DbLogin(i, p)
    \/ \E i \in IdentifierInputs, p \in Passwords : RtLogin(i, p)

SpecIdentifier == Init /\ [][NextIdentifier]_vars

\* Registrations one after the other, with the failures that may follow the insert of
\* the user row.
NextRegisterFailure ==
    \/ \E u \in Usernames, e \in RawEmails, p \in RegPasswords : DbRegister(u, e, p)
    \/ \E u \in Usernames, e \in RawEmails, p \in RegPasswords : DbRegisterSignThrows(u, e, p)
    \/ \E u \in Usernames, e \in RawEmails, p \in RegPasswords :
          RtRegisterGetUserByEmail(1, u, e, p)
    \/ RtRegisterGetUserByUsername(1)
    \/ RtRegisterCreateUser(1)
    \/ RtRegisterCreateSession(1)
    \/ RtRegisterCreateSessionFails(1)

SpecRegisterFailure == Init /\ [][NextRegisterFailure]_vars

\* Every handler, every input.
Next ==
    \/ NextRegister
    \/ NextSession
    \/ NextGame
    \/ NextConcurrentSave
    \/ NextAchievement
    \/ NextLeaderboard
    \/ NextRating
    \/ NextMalformedSave
    \/ NextStartup
    \/ NextOwnership
    \/ NextIdentifier
    \/ NextRegisterFailure

Spec == Init /\ [][Next]_vars

\* ------------------------------------------------------------ claims: accounts

\* The users rows whose email equals e, compared case-insensitively.
UsersWithEmail(e) == {r \in users : normalizeEmail(r.email) = normalizeEmail(e)}

\* A register answer that tells the caller the identity is taken.
IsDuplicateIdentity(r) ==
    \/ r.status = 409
    \/ r.status = 400 /\ r.error = "Username or email already exists"

\* C1: registrations with one email, in any order or interleaved, leave one users row
\* with that email; the registration that created it answered success and every other
\* one answers DuplicateIdentity.
C1_OneSuccessOneDuplicate ==
    /\ \A e \in RawEmails : Cardinality(UsersWithEmail(e)) <= 1
    /\ resp.op = "register" =>
         \/ /\ resp.status = 201
            /\ UsersWithEmail(resp.arg[2]) = {r \in users : Identity(r) = resp.user}
         \/ /\ IsDuplicateIdentity(resp)
            /\ \E r \in users : r.username = resp.arg[1] \/ r.email = resp.arg[2]

\* ------------------------------------------------------------ claims: sessions

SessionRecords(token) == {s \in user_sessions : s.token_hash = sha256(token)}

\* The handlers answer an absent and an expired session with one message; either
\* kind is read into it.
IsInvalidSession(r) ==
    r.status \in {401, 403} /\ r.error \in {"Invalid token", "Invalid or expired token"}
IsExpiredSession(r) ==
    r.status \in {401, 403} /\ r.error \in {"Invalid token", "Invalid or expired token"}

\* C4: validate succeeds iff a stored session record matches the token's fingerprint
\* and the clock is before its expiry; with no record it fails as InvalidSession, with
\* only expired records as ExpiredSession.
C4_ValidIffStoredAndUnexpired ==
    resp.op = "validate" =>
        /\ resp.status = 200 <=> \E s \in SessionRecords(resp.token) : now < s.expires_at
        /\ SessionRecords(resp.token) = {} => IsInvalidSession(resp)
        /\ ( /\ SessionRecords(resp.token) # {}
             /\ \A s \in SessionRecords(resp.token) : now >= s.expires_at )
           => IsExpiredSession(resp)

\* C5: no validate succeeds for a token that a logout has revoked or that has expired.
C5_NoWayBackFromRevokedOrExpired ==
    (resp.op = "validate" /\ resp.status = 200) =>
        /\ resp.token \notin loggedOut
        /\ now < resp.token.exp

\* C6: a token a register or login returned, presented to validate before its expiry
\* and before any logout of it, is accepted, and an accepted token yields the identity
\* of the user it was issued for.
C6_TokenYieldsItsUser ==
    resp.op = "validate" =>
        LET grants == {g \in issued : g.token = resp.token} IN
        /\ (grants # {} /\ now < resp.token.exp /\ resp.token \notin loggedOut)
              => resp.status = 200
        /\ (grants # {} /\ resp.status = 200) => \A g \in grants : resp.user = g.user

\* The second registered user validates a token of the session handlers while the
\* first user holds a token too.
C6_Witness ==
    /\ resp.op = "validate" /\ resp.stack = "rt" /\ resp.status = 200
    /\ resp.user.id = 2
    /\ \E g \in issued : g.user.id = 1 /\ g.token # resp.token
    /\ \E g \in issued : g.token = resp.token

\* ------------------------------------------------------------ claims: snapshots

SnapshotRows(u) == {r \in game_saves : r.user_id = u}

\* C2: after any saves by any users the game_saves table holds at most one row per
\* user.
C2_AtMostOneSnapshotPerUser ==
    \A u \in UserIds : Cardinality(SnapshotRows(u)) <= 1

\* C3: a load that finds a snapshot answers the state, plots and camera of the payload
\* of the user's last save, unchanged, whether or not the user had an earlier snapshot.
C3_LoadReturnsLastSavedPayload ==
    ( /\ resp.op = "load" /\ resp.status = 200 /\ resp.error = NULL
      /\ validateGameSave(lastSave[resp.user.id]) )
    => \A key \in {"gameState", "plots", "camera"} :
          Get(resp.arg, key) = Get(lastSave[resp.user.id], key)

\* ------------------------------------------------------------ claims: leaderboard entries

Categories == {"total_coins", "farm_level", "sustainability"}

EntriesIn(table, u, c) == {e \in table : e.user_id = u /\ e.category = c}
LeaderboardEntries(u, c) == EntriesIn(leaderboard, u, c)

\* The save request in slot s has just received the answer of an updateLeaderboard.
UpdateScoreStep(s) ==
    /\ reqs[s].op = "save" /\ reqs[s].pc \in Categories
    /\ reqs'[s] # reqs[s]

\* C8: every step leaves at most one leaderboard entry per (user, category), and an
\* updateLeaderboard call leaves, for its pair, the entry with its score, its username
\* and the time of the call.
C8_OneEntryHoldingLastUpdate ==
    [][ /\ \A u \in UserIds, c \in Categories : Cardinality(EntriesIn(leaderboard', u, c)) <= 1
        /\ \A s \in Slots : UpdateScoreStep(s) =>
             EntriesIn(leaderboard', reqs[s].user.id, reqs[s].pc) =
                 {[user_id |-> reqs[s].user.id, username |-> reqs[s].user.username,
                   category |-> reqs[s].pc,
                   score |-> leaderboardScore(Get(reqs[s].body, "gameState"), reqs[s].pc),
                   updated_at |-> now]}
      ]_vars

\* A user's second save with scores has been answered: the total_coins entry, written
\* at clock 0 with 5 coins, holds the 7 coins and the time of the later save.
C8_Witness ==
    /\ resp.op = "save" /\ resp.stack = "rt" /\ resp.status = 200
    /\ Cardinality(SnapshotRows(resp.user.id)) = 2
    /\ \E r \in SnapshotRows(resp.user.id) :
          r.updated_at = 0 /\ Get(JSONparse(r.game_state), "coins") = Num(5)
    /\ LeaderboardEntries(resp.user.id, "total_coins") =
          {[user_id |-> resp.user.id, username |-> resp.user.username,
            category |-> "total_coins", score |-> 7, updated_at |-> 1]}

\* The score a snapshot's state gives a category, where it gives one.
DerivesScore(gameState, c) ==
    CASE c = "total_coins" -> Get(gameState, "coins").t = "number"
      [] c = "farm_level" -> Get(gameState, "level").t = "number"
      [] OTHER -> TRUE

\* C10: whenever no save is in progress, each leaderboard entry of a user holds the
\* score derived from that user's current snapshot.
C10_LeaderboardMatchesSnapshot ==
    (\A s \in Slots : reqs[s].op # "save") =>
        \A u \in UserIds : loadGameStateRows(u) # {} =>
            \E save \in loadGameStateRows(u) :
                LET gameState == JSONparse(save.game_state) IN
                \A c \in Categories : \A e \in LeaderboardEntries(u, c) :
                    DerivesScore(gameState, c) => e.score = leaderboardScore(gameState, c)

\* ------------------------------------------------------------ claims: achievements

AchievementRecords(u, name) ==
    {a \in achievements : a.user_id = u /\ a.achievement_name = name}

AddSucceeded(r) == r.op = "achievement" /\ r.status \in {200, 201}

\* C9: every step leaves at most one achievement record per (user, name), and an add
\* answers success only when the pair was not stored before and is stored after: a
\* second add for a pair stores nothing and answers an error.
C9_SecondAddFailsAsDuplicate ==
    [][ /\ \A u \in UserIds, n \in AchievementNames :
              Cardinality({a \in achievements' : a.user_id = u /\ a.achievement_name = n}) <= 1
        /\ AddSucceeded(resp') =>
              /\ AchievementRecords(resp'.user.id, resp'.arg) = {}
              /\ \E a \in achievements' :
                    a.user_id = resp'.user.id /\ a.achievement_name = resp'.arg
      ]_vars

\* ------------------------------------------------------------ claims: ranking

\* C7: a leaderboard answer lists scores in non-increasing order, and the rank of its
\* i-th entry is i, whatever the store holds.
C7_ScoresDescendRanksAscend ==
    (resp.op = "leaderboard" /\ resp.status = 200) =>
        \A i \in 1..Len(resp.arg) :
            /\ resp.arg[i].rank = i
            /\ i < Len(resp.arg) => resp.arg[i].score >= resp.arg[i + 1].score

\* Database.getLeaderboard has answered three entries, the higher score first, from
\* rows stored with the lower score first and two rows of equal score.
C7_Witness ==
    /\ resp.op = "leaderboard" /\ resp.stack = "db" /\ resp.status = 200
    /\ Len(resp.arg) = 3
    /\ resp.arg[1].score = 7 /\ resp.arg[2].score = 5 /\ resp.arg[3].score = 5
    /\ \E r1, r2 \in game_saves : r1.id < r2.id /\ r1.coins = 5 /\ r2.coins = 7

\* ------------------------------------------------------------ claims: propagation

\* The state of a save request holds numbers for level and coins.
HasLevelAndCoins(gameState) ==
    Get(gameState, "level").t = "number" /\ Get(gameState, "coins").t = "number"

\* The entry lists a getLeaderboard for the category total_coins, asked now through the
\* deployed handlers with a limit that covers every user, may answer; the empty list
\* where it fails.
TotalCoinsNow ==
    IF gen = "rt"
    THEN {formattedLeaderboard("total_coins", entries) :
             entries \in getLeaderboardEntries("total_coins", MaxEntries)}
    ELSE IF getLeaderboardFails("total_coins") THEN {<<>>}
    ELSE getLeaderboard("total_coins", MaxEntries)

\* C11: when a save whose state holds level and coins has answered success, the
\* user's progress summary holds that level and those coins, the user has an entry with
\* the derived score in each of the three categories, and a getLeaderboard for
\* total_coins lists the user with the saved coins as score.
C11_SaveForwardsLevelAndCoins ==
    ( /\ resp.op = "save" /\ resp.status = 200
      /\ HasLevelAndCoins(Get(resp.arg, "gameState")) )
    => LET gameState == Get(resp.arg, "gameState") IN
       /\ \E r \in users : /\ r.id = resp.user.id
                           /\ r.farm_level = Get(gameState, "level").n
                           /\ r.total_coins = Get(gameState, "coins").n
       /\ \A c \in validCategories :
             \E e \in leaderboard : /\ e.user_id = resp.user.id /\ e.category = c
                                    /\ e.score = leaderboardScore(gameState, c)
       /\ \A entries \in TotalCoinsNow :
             \E i \in 1..Len(entries) : /\ entries[i].username = resp.user.username
                                        /\ entries[i].score = Get(gameState, "coins").n

\* ------------------------------------------------------------ claims: authenticate

FailedLogin(r) == r.op = "login" /\ r.status # 200

\* A registered user has the identifier as username or email.
KnownIdentifier(identifier) ==
    \E r \in users : r.username = identifier \/ r.email = identifier

\* C12: a failed login for a registered identifier (wrong password) and a failed login
\* for an identifier nobody registered, one right after the other, answer the same
\* status and the same error.
C12_FailedLoginsLookAlike ==
    [][ ( /\ FailedLogin(resp) /\ FailedLogin(resp')
          /\ KnownIdentifier(resp.arg[1]) # KnownIdentifier(resp'.arg[1]) )
        => (resp'.status = resp.status /\ resp'.error = resp.error)
      ]_vars

\* The last_login values of user u in a users table.
LastLoginIn(table, u) == {r.last_login : r \in {x \in table : x.id = u}}

HandsToken(r) == r.op \in {"register", "login"} /\ r.status \in {200, 201}

C15_RevokeIsIdempotent ==
    [][ resp'.op = "logout" =>
            /\ resp'.status = 200
            /\ (\A s \in SessionRecords(resp'.token) : now >= s.expires_at)
                  => user_sessions' = user_sessions
      ]_vars

\* ------------------------------------------------------------ claims: leaderboard queries

\* The time of the last update an entry of a leaderboard answer shows.
UpdatedAtOf(entry) ==
    IF "updatedAt" \in DOMAIN entry THEN entry.updatedAt ELSE entry.lastUpdated

\* C16: in a leaderboard answer, of two neighbours with equal score the one updated
\* earlier comes first.
C16_TiesBrokenByEarlierUpdate ==
    (resp.op = "leaderboard" /\ resp.status = 200) =>
        \A i \in 1..Len(resp.arg) :
            (i < Len(resp.arg) /\ resp.arg[i].score = resp.arg[i + 1].score)
            => UpdatedAtOf(resp.arg[i]) <= UpdatedAtOf(resp.arg[i + 1])

\* The answer to a validation error about the category.
IsUnknownCategory(r) ==
    r.status = 400 /\ r.error \in {"Invalid category", "Invalid leaderboard category"}

\* The limit of the query is absent or within the ceiling.
LimitInRange(q) == q = <<>> \/ (q[1] >= 1 /\ q[1] <= LimitCeiling)

\* C17: a leaderboard query for a category other than total_coins, farm_level and
\* sustainability is answered with the category validation error and no entries; a
\* query for one of the three, with a limit in range, is answered with the entries.
C17_UnknownCategoryIsTyped ==
    resp.op = "leaderboard" =>
        /\ resp.req.category \notin validCategories
              => (IsUnknownCategory(resp) /\ resp.arg = <<>>)
        /\ (resp.req.category \in validCategories /\ LimitInRange(resp.req.q))
              => resp.status = 200

\* The deployed handlers know the category of the request.
KnowsCategory(r) ==
    IF r.stack = "db" THEN getLeaderboardColumn(r.req.category) # NULL
    ELSE r.req.category \in validCategories

\* The answer to a validation error about an argument other than the category.
IsInvalidArgument(r) == r.status = 400 /\ ~IsUnknownCategory(r)

\* C18: a leaderboard query whose limit is zero or negative, for a category the
\* handlers know, is answered with the argument validation error and no entries.
C18_NonPositiveLimitRejected ==
    ( /\ resp.op = "leaderboard" /\ KnowsCategory(resp)
      /\ resp.req.q # <<>> /\ resp.req.q[1] <= 0 )
    => (IsInvalidArgument(resp) /\ resp.arg = <<>>)

\* C19: no handler hands getLeaderboard a limit above the ceiling, and no leaderboard
\* answer lists more entries than the ceiling.
C19_LimitCeilingEnforced ==
    resp.op \in {"leaderboard", "position"} =>
        /\ resp.req.limit # <<>> => resp.req.limit[1] <= LimitCeiling
        /\ resp.op = "leaderboard" => Len(resp.arg) <= LimitCeiling

\* The entries of a category in the leaderboard table.
CategoryEntries(c) == {e \in leaderboard : e.category = c}

\* C20: the position answer gives, for each category, rank null exactly when the user
\* has no entry in it, and else the user's score, the number of entries of the whole
\* category as totalPlayers, and a rank that counts every entry with a higher score
\* (entries of equal score share the places after those).
C20_PositionRanksFullCategory ==
    resp.op = "position" =>
        \A c \in validCategories :
            LET mine == {e \in CategoryEntries(c) : e.user_id = resp.user.id}
                position == resp.arg[c]
            IN IF mine = {} THEN position.rank = Null
               ELSE \E e \in mine :
                      LET higher == Cardinality({x \in CategoryEntries(c) : x.score > e.score})
                          equal == Cardinality({x \in CategoryEntries(c) : x.score = e.score})
                      IN /\ position.rank.t = "number"
                         /\ position.rank.n > higher /\ position.rank.n <= higher + equal
                         /\ position.score = e.score
                         /\ position.totalPlayers = Cardinality(CategoryEntries(c))

\* ------------------------------------------------------------ claims: rating scores

\* The label a leaderboard response shows for an entry.
LabelShown(entry) ==
    IF "formattedScore" \in DOMAIN entry THEN entry.formattedScore
    ELSE entry.sustainabilityRating

\* The rating label of the user's last accepted save, as a JSON value.
LastSavedRating(u) == Get(Get(lastSave[u], "gameState"), "sustainabilityRating")

\* C21: the save handler gives the five labels of the rating the scores 1 to 5 in
\* their order, and when no save is in progress a sustainability leaderboard shows, for
\* a user whose last save carried one of the five labels, that label.
C21_FormattingYieldsSavedLabel ==
    /\ \A i \in DOMAIN RatingLabels : sustainabilityScore(Str(RatingLabels[i])) = i
    /\ ( /\ resp.op = "leaderboard" /\ resp.status = 200
         /\ resp.req.category = "sustainability"
         /\ \A s \in Slots : reqs[s] = NoReq )
       => \A i \in DOMAIN resp.arg : \A r \in users :
             ( /\ r.username = resp.arg[i].username
               /\ LastSavedRating(r.id).t = "string"
               /\ \E k \in DOMAIN RatingLabels : RatingLabels[k] = LastSavedRating(r.id).s )
             => LabelShown(resp.arg[i]) = LastSavedRating(r.id).s

\* The detailed sustainability leaderboard shows 'Green Farmer' for a user whose last
\* save carried that label, after an earlier save carried another.
C21_Witness ==
    /\ resp.op = "leaderboard" /\ resp.status = 200
    /\ resp.req.category = "sustainability"
    /\ \A s \in Slots : reqs[s] = NoReq
    /\ Len(resp.arg) = 1
    /\ "sustainabilityRating" \in DOMAIN resp.arg[1]
    /\ resp.arg[1].sustainabilityRating = "Green Farmer"
    /\ resp.arg[1].score = 4
    /\ Cardinality(game_saves) = 2
    /\ \E r \in users : LastSavedRating(r.id) = Str("Green Farmer")

\* ------------------------------------------------------------ claims: malformed payloads

\* The part is missing or a raw scalar.
MissingOrScalar(part) == part.t \in {"undefined", "number", "string", "boolean"}

\* The payload has a state, plots or a camera that is missing or a raw scalar.
IsMalformed(body) ==
    \/ MissingOrScalar(Get(body, "gameState"))
    \/ MissingOrScalar(Get(body, "plots"))
    \/ MissingOrScalar(Get(body, "camera"))

\* C22: a step that answers an authenticated save of a payload whose state, plots or
\* camera is missing or a raw scalar answers it as a validation failure and leaves the
\* snapshots, the progress summaries and the leaderboard as they were.
C22_MalformedSaveRejected ==
    [][ ( /\ resp'.op = "save" /\ resp'.user # NoUser
          /\ IsMalformed(resp'.arg) )
        => ( /\ resp'.status = 400
             /\ resp'.error = "Validation failed"
             /\ game_saves' = game_saves
             /\ users' = users
             /\ leaderboard' = leaderboard )
      ]_vars

\* ------------------------------------------------------------ claims: load without a save

\* The answer of a load that found no snapshot: no data, and not the failure answer.
IsNoData(r) ==
    /\ r.op = "load"
    /\ \/ r.stack = "db" /\ r.status = 200 /\ r.error = "No saved game found"
       \/ r.stack = "rt" /\ r.status = 404 /\ r.error = "No save data found"

\* The answer of a load that found a snapshot.
AnswersSnapshot(r) == r.op = "load" /\ r.status = 200 /\ r.error = NULL

C24_OnlyConnectionFailureIsFatal ==
    /\ exit = "crash" => conn = "failed"
    /\ conn = "failed" => exit # "running"

\* C26: a schema setup that reports failure leaves none of its tables created, one
\* that has a failed statement reports failure, and one that reports success has run
\* every statement with success.
C26_SchemaSetupIsAtomic ==
    /\ schemaPromise = "rejected" => \A i \in DOMAIN created : created[i] # "ok"
    /\ (\E i \in DOMAIN created : created[i] = "failed") => schemaPromise = "rejected"
    /\ schemaPromise = "resolved" => \A i \in DOMAIN created : created[i] = "ok"

\* C30: a request handler runs a store operation, and the init script reports success
\* or closes the connection, only when initSchema has resolved.
C30_SchemaReadyBeforeUse ==
    /\ resp.op = "request" => schemaPromise = "resolved"
    /\ main \in {"reported", "closed"} => schemaPromise = "resolved"

\* ------------------------------------------------------------ claims: concurrent saves

\* The row holds the state, the plots and the camera a save of the payload writes.
WrittenFrom(row, gameData) ==
    LET written == saveGameStateRow(row.user_id, gameData) IN
    /\ row.game_state = written.game_state
    /\ row.plots_data = written.plots_data
    /\ row.camera_data = written.camera_data

\* C25: when a user's saves have completed, the user has one snapshot, and the snapshot
\* a load reads is, in all its parts, the payload of the save that wrote last.
C25_ConcurrentSavesLastWriteWins ==
    \A u \in UserIds :
        (lastSave[u] # Undefined /\ \A s \in Slots : reqs[s].op # "save") =>
            /\ Cardinality({r \in game_saves : r.user_id = u}) = 1
            /\ \A row \in loadGameStateRows(u) : WrittenFrom(row, lastSave[u])

\* ------------------------------------------------------------ claims: ownership

\* The handlers that act under a session and write game records.
GameOps == {"save", "load", "achievement", "reset"}

\* The records a user owns in a state of the tables: snapshots, achievements, the
\* progress summary and the leaderboard entries.
Owned(u, savesTable, achievementsTable, usersTable, leaderboardTable) ==
    [snapshots |-> {r \in savesTable : r.user_id = u},
     achievements |-> {a \in achievementsTable : a.user_id = u},
     progress |-> {<<r.farm_level, r.total_coins, r.sustainability_rating>> :
                     r \in {x \in usersTable : x.id = u}},
     entries |-> {e \in leaderboardTable : e.user_id = u}]

\* The token was handed to the user at a registration or a login.
BoundTo(token, u) == \E g \in issued : g.token = token /\ g.user.id = u

\* C27: a step of a save, load, add achievement or reset changes the snapshots, the
\* achievements, the progress summary or the leaderboard entries of a user only when
\* it runs under a token that was issued to that user.
C27_RequestsTouchOnlyOwnRecords ==
    [][ \A u \in UserIds :
          ( /\ Owned(u, game_saves, achievements, users, leaderboard)
                 # Owned(u, game_saves', achievements', users', leaderboard')
            /\ \/ resp'.op \in GameOps
               \/ \E s \in Slots : /\ reqs[s] # reqs'[s]
                                    /\ (reqs[s].op \in GameOps \/ reqs'[s].op \in GameOps) )
          => \/ resp'.op \in GameOps /\ BoundTo(resp'.token, u)
             \/ \E s \in Slots : /\ reqs[s] # reqs'[s]
                                  /\ \/ reqs[s].op \in GameOps /\ BoundTo(reqs[s].token, u)
                                     \/ reqs'[s].op \in GameOps /\ BoundTo(reqs'[s].token, u)
      ]_vars

\* Both users hold a snapshot, and the second user's reset has set that user's
\* progress summary back while the first user's summary holds the saved level.
C27_Witness ==
    /\ resp.op = "reset" /\ resp.status = 200 /\ resp.user.id = 2
    /\ \A u \in UserIds : {r \in game_saves : r.user_id = u} # {}
    /\ \E r \in users : r.id = 1 /\ r.farm_level = 3
    /\ \E r \in users : r.id = 2 /\ r.farm_level = 1 /\ r.total_coins = 100

\* ------------------------------------------------------------ claims: login identifiers

\* The active users a login by the identifier may mean.
MeantBy(identifier) ==
    {r \in users : r.is_active /\ (r.username = identifier \/ r.email = identifier)}

\* C28: every identifier is the username or the email of at most one active user, and
\* a login that presents a user's username or email with that user's password is not
\* answered 401.
C28_IdentifierMeansOneUser ==
    /\ \A identifier \in IdentifierInputs : Cardinality(MeantBy(identifier)) <= 1
    /\ (resp.op = "login" /\ resp.status = 401) =>
          \A r \in MeantBy(resp.arg[1]) : r.password_hash # bcryptHash(resp.arg[2])

\* ------------------------------------------------------------ claims: failed registration

\* C29: when a register request has been answered with a failure, the only users with
\* its username or its email are users who were handed a token, that is, users of
\* requests that reported success.
C29_FailedRegistrationLeavesNoUser ==
    (resp.op = "register" /\ resp.status # 201) =>
        \A r \in users :
            (r.username = resp.arg[1] \/ r.email = resp.arg[2])
            => \E g \in issued : g.user.id = r.id

====
